---- MODULE Spec2Model ----
(***************************************************************************)
(* Model of the Twitter API proxy service (src/unnamed/part_000, the       *)
(* service of lines 472-869: body-parsing middleware, token middleware,    *)
(* POST /api/twitter/proxy with its two call paths, parseError, the 404    *)
(* handler).                                                               *)
(*                                                                         *)
(* Strings the code searches or assembles (the Authorization header, error *)
(* messages) are sequences of tokens: a token is a piece of text that the  *)
(* code never splits.  Render joins the tokens into the text.              *)
(* The messages the source writes in Chinese are given in English.         *)
(***************************************************************************)
EXTENDS Integers, Sequences, FiniteSets, TLC

VARIABLES
    API_TOKEN,   \* process-wide configuration, read once at load (line 506)
    pc,          \* pc[r]: where request r is in the middleware chain
    req,         \* req[r]: what the code has read of request r
    remote,      \* remote[r]: the outcome of r's outbound call
    capture,     \* capture[r]: client._responseCapture of r's client
    invocation,  \* invocation[r]: how invokeMethod / directRequest ended for r
    outbound,    \* outbound[r]: outbound calls made on behalf of r
    res,         \* res[r]: the responses sent for r, in order
    direct,      \* one call of directRequest or invokeMethod followed in detail:
                 \* its arguments, the request it hands to fetch, the error it throws
    normalized   \* one call of parseError: its argument and what it returned

vars == <<API_TOKEN, pc, req, remote, capture, invocation, outbound, res, direct, normalized>>

\* The variables of the server's requests.
server == <<API_TOKEN, pc, req, remote, capture, invocation, outbound, res>>

\* Number of requests the server handles, concurrently.
NumReqs == 1

Reqs == 1..NumReqs

---------------------------------------------------------------------------
(* Text *)

RECURSIVE Render(_)
\* The text of a token sequence.
Render(s) == IF s = <<>> THEN "" ELSE Head(s) \o Render(Tail(s))

\* String.prototype.replace(pat, '') with a string pattern: the first
\* occurrence only.
ReplaceFirst(s, pat) ==
    IF \E i \in 1..Len(s) : s[i] = pat
    THEN LET i == CHOOSE k \in 1..Len(s) :
                      s[k] = pat /\ \A j \in 1..(k - 1) : s[j] # pat
         IN  SubSeq(s, 1, i - 1) \o SubSeq(s, i + 1, Len(s))
    ELSE s

\* String.prototype.includes for a token.
Includes(s, tok) == \E i \in 1..Len(s) : s[i] = tok

\* The HTTP statuses the remote platform answers with in the model.
Statuses == {200, 304, 429}

\* The error codes the remote platform puts in an errors entry (positive).
Codes == {88}

\* The numbers whose decimal text occurs in a message.
Numbers == Statuses \cup Codes \cup {0, 500}

IsDigits(tok) == \E n \in Numbers : ToString(n) = tok

\* parseInt of a token of digits.
ParseInt(tok) == CHOOSE n \in Numbers : ToString(n) = tok

\* message.match(/HTTP (\d+)/)?.[1] then parseInt: the number after the
\* first "HTTP " that digits follow; 0 stands for NaN (both are falsy).
MatchHttpStatus(msg) ==
    LET hits == {i \in 1..(Len(msg) - 1) : msg[i] = "HTTP " /\ IsDigits(msg[i + 1])}
    IN  IF hits = {} THEN 0
        ELSE ParseInt(msg[(CHOOSE i \in hits : \A j \in hits : i <= j) + 1])

---------------------------------------------------------------------------
(* Response bodies of the remote platform *)

\* The four substrings invokeMethod looks for (lines 678-681).
Markers == {"\"errors\"", "\"code\"", "suspended", "locked"}

\* rawBodyPreview = bodyText.substring(0, 500) (line 669).
PreviewLen == 500

NoEntry == [message |-> "", detail |-> "", code |-> 0]

\* A body: its text, what JSON.parse makes of it ("invalid": it throws),
\* the errors list and the error field of the parsed object ("" and 0 stand
\* for an absent or otherwise falsy field), its length, the markers that
\* occur in its first PreviewLen characters and those that occur only later.
\* isNull: no body at all (null), as opposed to the empty text.
MkBody(text, json, errors, error, len, markers, late) ==
    [isNull |-> FALSE, text |-> text, json |-> json, errors |-> errors,
     error |-> error, len |-> len, markers |-> markers, late |-> late]

Doc(text, json, errors, error, markers) ==
    MkBody(text, json, errors, error, Len(text), markers, {})

NullBody ==
    [isNull |-> TRUE, text |-> "", json |-> "invalid", errors |-> <<>>,
     error |-> "", len |-> 0, markers |-> {}, late |-> {}]

EmptyBody == Doc("", "invalid", <<>>, "", {})

LockedBody == Doc("Your account is locked", "invalid", <<>>, "", {"locked"})

DataBody == Doc("{\"data\":{}}", "object", <<>>, "", {})

RateBody ==
    Doc("{\"errors\":[{\"message\":\"Rate limit exceeded\",\"code\":88}]}", "object",
        <<[message |-> "Rate limit exceeded", detail |-> "", code |-> 88]>>,
        "", {"\"errors\"", "\"code\""})

DetailBody ==
    Doc("{\"errors\":[{\"detail\":\"Not authorized\"}],\"error\":\"ignored\"}", "object",
        <<[message |-> "", detail |-> "Not authorized", code |-> 0]>>,
        "ignored", {"\"errors\""})

ErrorBody ==
    Doc("{\"errors\":[{}],\"error\":\"Forbidden\"}", "object",
        <<NoEntry>>, "Forbidden", {"\"errors\""})

NullJsonBody == Doc("null", "null", <<>>, "", {})

\* A long JSON document (abbreviated here) whose only marker lies beyond
\* the preview.
LongBody ==
    MkBody("{\"data\":{ ... \"suspended\" ... }}", "object", <<>>, "",
           PreviewLen + 300, {}, {"suspended"})

Bodies ==
    {EmptyBody, LockedBody, DataBody, RateBody, DetailBody, ErrorBody,
     NullJsonBody, LongBody}

\* A body is truthy unless it is null or the empty text.
TruthyBody(b) == ~b.isNull /\ b.len > 0

\* text.substring(0, n): what is left of a body cut to n characters.
Substring(b, n) ==
    IF b.len <= n THEN b
    ELSE [b EXCEPT !.json = "invalid", !.errors = <<>>, !.error = "",
                   !.len = n, !.late = {}]

---------------------------------------------------------------------------
(* Thrown values *)

\* A thrown value.  thrown: "Error" (an Error object), "string" (a thrown
\* string: it has neither message nor response) or "null" (a thrown null:
\* reading a property of it throws).  message = <<>> is the
\* empty message.  status 0 and statusText "" stand for absent or falsy
\* values; cause "" for no cause.
MkError(thrown, message, hasResponse, status, statusText, body, cause) ==
    [thrown |-> thrown, message |-> message, hasResponse |-> hasResponse,
     status |-> status, statusText |-> statusText, body |-> body, cause |-> cause]

\* new Error(message)
NewError(message) == MkError("Error", message, FALSE, 0, "", NullBody, "")

\* An Error with error.response = {status, statusText, body}.
WithResponse(message, status, statusText, body) ==
    MkError("Error", message, TRUE, status, statusText, body, "")

ThrownString == MkError("string", <<>>, FALSE, 0, "", NullBody, "")

ThrownNull == MkError("null", <<>>, FALSE, 0, "", NullBody, "")

NoError == NewError(<<"<none>">>)

\* The reason phrase of a status line.
StatusText(status) ==
    CASE status = 200 -> "OK"
      [] status = 304 -> "Not Modified"
      [] status = 429 -> "Too Many Requests"
      [] OTHER -> ""

\* The two crash signatures of the client library's decoder (lines 656-657).
CrashSignatures == {"Cannot read properties of undefined", "Denied by access control"}

---------------------------------------------------------------------------
(* parseError, lines 546-573 *)

\* HttpMessage with the code left out.
HttpMessageNoCode(status, detail, code) == <<"HTTP ", ToString(status), ": ", detail>>

\* `HTTP ${status}: ${detail}` and the optional ` (code=${code})`.
HttpMessage(status, detail, code) ==
    <<"HTTP ", ToString(status), ": ", detail>>
        \o (IF code # 0 THEN <<" (code=", ToString(code), ")">> ELSE <<>>)

\* The status parseError derives (line 547).
ParseStatus(error) ==
    IF error.hasResponse /\ error.status # 0 THEN error.status
    ELSE IF MatchHttpStatus(error.message) # 0 THEN MatchHttpStatus(error.message)
    ELSE 500

\* Whether evaluating parseError(error) throws: error.response of null or
\* undefined, or error.message.match of a value that has no message.
ParseErrorThrows(error) ==
    \/ error.thrown = "null"
    \/ error.thrown = "string" /\ ~(error.hasResponse /\ error.status # 0)

\* message after the cause is added (lines 548-559).
ParseMessage(error) ==
    LET message == IF error.message # <<>> THEN error.message ELSE <<"API call failed">>
    IN  IF error.cause # "" /\ ~Includes(message, error.cause)
        THEN message \o <<" (cause: ", error.cause, ")">>
        ELSE message

\* The {status, message, body} parseError returns (when it does not throw).
\* body.isNull: the returned body is null.
ParseError(error) ==
    LET status == ParseStatus(error)
        message == ParseMessage(error)
        raw == error.body
        parsed == error.hasResponse /\ TruthyBody(raw) /\ raw.json # "invalid"
        apiErr == IF parsed /\ raw.json = "object" /\ raw.errors # <<>>
                  THEN raw.errors[1] ELSE NoEntry
    IN  [status |-> status,
         message |->
            IF ~parsed \/ raw.json = "null" THEN message
            ELSE IF apiErr.message # "" \/ apiErr.detail # ""
            THEN HttpMessage(status,
                             IF apiErr.message # "" THEN apiErr.message ELSE apiErr.detail,
                             apiErr.code)
            ELSE IF raw.error # "" THEN <<"HTTP ", ToString(status), ": ", raw.error>>
            ELSE message,
         body |-> IF parsed /\ raw.json = "object" THEN raw ELSE NullBody]

\* normalized before parseError is called.  pc: "none", "returned", "threw".
NotNormalized ==
    [pc |-> "none", error |-> NoError, result |-> [status |-> 0, message |-> <<>>, body |-> NullBody]]

---------------------------------------------------------------------------
(* The packaged-method invoker, lines 514-525 and 647-718 *)

\* The method table's own keys.
API_METHODS ==
    {"getUserByScreenName", "getUserByRestId", "getHomeLatestTimeline",
     "getUserTweets", "getTweetDetail", "getFollowing", "postCreateFriendships",
     "postDestroyFriendships", "postCreateRetweet", "postDeleteRetweet"}

\* Names every object literal inherits from Object.prototype.
ObjectPrototypeKeys ==
    {"constructor", "toString", "valueOf", "__proto__", "hasOwnProperty",
     "isPrototypeOf", "propertyIsEnumerable", "toLocaleString"}

\* What API_METHODS[method] evaluates to.  The table is an object literal,
\* so a name that is not an own key is looked up on Object.prototype:
\* "packaged": the table's entry; "Object": the Object constructor;
\* "toString", "valueOf": the methods of Object.prototype of that name;
\* "prototype": Object.prototype itself (not callable); "undefined".
Lookup(method) ==
    CASE method \in API_METHODS -> "packaged"
      [] method = "constructor" -> "Object"
      [] method = "toString" -> "toString"
      [] method = "valueOf" -> "valueOf"
      [] method = "__proto__" -> "prototype"
      [] OTHER -> "undefined"

\* The outcome of a call path: it returned value, or threw error.
Returned(value) == [ended |-> "returned", value |-> value, error |-> NoError]

Threw(error) == [ended |-> "threw", value |-> "", error |-> error]

NotEnded == [ended |-> "none", value |-> "", error |-> NoError]

\* `Unsupported API method: ${method}` (line 649)
UnsupportedMethod(method) == NewError(<<"Unsupported API method: ", method>>)

\* readResponseBody (lines 532-539): '' for a used body; the JSON text when
\* the body parses; otherwise response.text() is tried on the body that
\* response.json() has consumed, which fails, and '' is returned.
ReadResponseBody(bodyUsed, body) ==
    IF bodyUsed THEN EmptyBody
    ELSE IF body.json # "invalid" THEN body
    ELSE EmptyBody

\* JSON.stringify({ errors: error.errors }) (line 702)
ErrorsOnly(body) == [body EXCEPT !.error = "", !.markers = @ \ {"suspended", "locked"}]

\* hasErrorIndicator (lines 678-681)
HasErrorIndicator(preview) ==
    \/ "\"errors\"" \in preview.markers
    \/ "\"code\"" \in preview.markers
    \/ "suspended" \in preview.markers
    \/ "locked" \in preview.markers

\* The empty-result test of line 677 with lines 678-682.
IsEmptyResult(rawStatusCode, preview) ==
    rawStatusCode = 200 /\ TruthyBody(preview) /\ ~HasErrorIndicator(preview)

\* client._responseCapture as createClient leaves it (line 601); status 0
\* stands for null.
NoCapture == [status |-> 0, statusText |-> "", cloned |-> FALSE, body |-> NullBody]

\* CaptureOf with one capture for the whole module.
CaptureShared(r) == 1

\* Whose capture the wrappedFetchApi of r's client writes and r's
\* invokeMethod reads: responseCapture is a local of createClient (line
\* 601), hung on the client it returns (line 636), so it is r's own.
CaptureOf(r) == r

\* What wrappedFetchApi records of a response (lines 606-611).
Captured(status, body) ==
    [status |-> status, statusText |-> StatusText(status), cloned |-> TRUE, body |-> body]

\* errorMsg = error?.message || '' (line 655)
ErrorMsg(error) == IF error.thrown = "Error" THEN error.message ELSE <<>>

IsCrash(error) == \E sig \in CrashSignatures : Includes(ErrorMsg(error), sig)

\* The crash branch of invokeMethod's catch (lines 658-694).  textFails:
\* reading the cloned response's text throws.
CrashBranch(error, cap, textFails) ==
    LET captured == cap.status # 0
        preview == IF captured /\ cap.cloned /\ ~textFails
                   THEN Substring(cap.body, PreviewLen) ELSE NullBody
        diag == IF captured
                THEN <<" [", "HTTP ", ToString(cap.status), " ", cap.statusText, "]">>
                         \o (IF preview.isNull THEN <<>> ELSE <<" body: ", preview.text>>)
                ELSE <<>>
    IN  IF IsEmptyResult(cap.status, preview) THEN Returned("null")
        ELSE Threw(WithResponse(
                 <<"API response abnormal, data parse failed">> \o diag
                     \o <<"[">> \o ErrorMsg(error) \o <<"]">>,
                 IF cap.status # 0 THEN cap.status ELSE 500,
                 "API Response Parse Error", preview))

\* The rest of the catch without the guard of line 697: destructuring the
\* missing response fails.
EnhanceWithoutGuard(error, attached, bodyUsed) ==
    IF error.thrown = "null"
    THEN Threw(NewError(<<"Cannot read properties of null", " (reading 'response')">>))
    ELSE IF ~error.hasResponse
    THEN Threw(NewError(<<"Cannot destructure property 'status' of 'error.response'",
                          " as it is undefined.">>))
    ELSE LET body == CASE attached = "data" -> error.body
                       [] attached = "errors" -> ErrorsOnly(error.body)
                       [] OTHER -> ReadResponseBody(bodyUsed, error.body)
         IN  Threw(WithResponse(
                 <<"HTTP ", ToString(error.status), ": ",
                   IF error.statusText # "" THEN error.statusText ELSE "Unknown">>,
                 error.status, error.statusText, body))

\* The rest of the catch (lines 697-716).  attached: what the library hung
\* on the error ("data": error.data, "errors": error.errors, "none").
EnhanceBranch(error, attached, bodyUsed) ==
    IF error.thrown = "null"
    THEN Threw(NewError(<<"Cannot read properties of null", " (reading 'response')">>))
    ELSE IF ~error.hasResponse THEN Threw(error)
    ELSE LET body == CASE attached = "data" -> error.body
                       [] attached = "errors" -> ErrorsOnly(error.body)
                       [] OTHER -> ReadResponseBody(bodyUsed, error.body)
         IN  Threw(WithResponse(
                 <<"HTTP ", ToString(error.status), ": ",
                   IF error.statusText # "" THEN error.statusText ELSE "Unknown">>,
                 error.status, error.statusText, body))

\* invokeMethod's catch block (lines 653-717).
InvokeCatch(error, cap, attached, bodyUsed, textFails) ==
    IF IsCrash(error) THEN CrashBranch(error, cap, textFails)
    ELSE EnhanceBranch(error, attached, bodyUsed)

---------------------------------------------------------------------------
(* Requests and responses *)

Undefined == "<undefined>"

Null == "<null>"

Unread == "<unread>"

\* JavaScript truthiness of a field of the envelope ("" stands for every
\* falsy value that is not null or undefined).
Truthy(v) == v \notin {Undefined, Null, ""}

ProxyRoute == "POST /api/twitter/proxy"

Routes == {ProxyRoute, "GET /api/twitter/proxy"}

\* req.headers.authorization: absent, or a text.
NoHeader == [present |-> FALSE, value |-> <<>>]

Header(value) == [present |-> TRUE, value |-> value]

Authorizations ==
    {NoHeader, Header(<<>>), Header(<<"Bearer ", "tok">>), Header(<<"Bearer ", "bad">>),
     Header(<<"tok">>), Header(<<"bad">>), Header(<<"tok", "Bearer ">>),
     Header(<<"Bearer ", "Bearer ", "tok">>)}

\* process.env.API_TOKEN || '' (line 506): unset, or a token.
Tokens == {<<>>, <<"tok">>}

MethodNames == {"getUserTweets", "getUserProfile", "constructor", "toString", "valueOf", "__proto__"}

Endpoints == {"/i/api/graphql/q/Viewer", "/1.1/friendships/create.json"}

\* The header of a request that has not arrived, and of one whose header no
\* later step reads.
NotHeld == [present |-> FALSE, value |-> <<"<not held>">>]

\* req[r] holds the request as far as a later step can still read it: the
\* route and the Authorization header from its arrival, the fields of the
\* envelope from the moment the route handler decides on them.  The route
\* handlers never read the Authorization header, so it is dropped from
\* req[r] once they start; tokenOk keeps the verdict of the token test of
\* line 801.  entered: the call paths the route handler has entered for the
\* request, in order.
NewRequest ==
    [route |-> Unread, authorization |-> NotHeld, tokenOk |-> FALSE, authToken |-> Unread,
     ct0Token |-> Unread, headers |-> Unread, flag |-> Unread,
     apiMethod |-> Unread, endpoint |-> Unread, method |-> Unread, entered |-> <<>>]

NoDetails == [message |-> <<>>, hasResponse |-> FALSE, status |-> 0, body |-> NullBody]

\* A response: its HTTP status, the keys of its JSON body and their values.
\* kind "fault": the framework's error page, not a JSON body of the service.
MkRes(kind, http, keys, success, error, statusCode, apiMethod, data, details) ==
    [kind |-> kind, http |-> http, keys |-> keys, success |-> success,
     error |-> error, statusCode |-> statusCode, apiMethod |-> apiMethod,
     data |-> data, details |-> details]

\* res.status(http).json({ success: false, error })
Refusal(http, error) ==
    MkRes("json", http, {"success", "error"}, FALSE, <<error>>, 0, "", "", NoDetails)

\* res.json({ success: true, data: result }) (line 844)
Success(data) ==
    MkRes("json", 200, {"success", "data"}, TRUE, <<>>, 0, "", data, NoDetails)

\* What the framework answers when a handler's promise rejects or a
\* middleware passes an error on: the default error handler's page.
Fault(http) == MkRes("fault", http, {}, FALSE, <<>>, 0, "", "", NoDetails)

\* ResponseStatus without the range test.
ResponseStatusUnclamped(status) == status

\* status >= 400 && status < 600 ? status : 500 (line 849)
ResponseStatus(status) == IF status >= 400 /\ status < 600 THEN status ELSE 500

\* The catch block of the route handler (lines 845-856).
HandlerCatch(error, method) ==
    IF ParseErrorThrows(error) THEN Fault(500)
    ELSE LET p == ParseError(error)
         IN  MkRes("json", ResponseStatus(p.status),
                   {"success", "error", "statusCode", "apiMethod", "details"},
                   FALSE, <<"[", method, "] ">> \o p.message, p.status, method, "",
                   [message |-> error.message, hasResponse |-> error.hasResponse,
                    status |-> IF error.hasResponse THEN error.status ELSE 0,
                    body |-> IF ~error.hasResponse THEN NullBody
                             ELSE IF ~p.body.isNull THEN p.body ELSE error.body])

\* The response the route handler sends for the outcome of a call path
\* (lines 844-856).
HandlerResponse(outcome, method) ==
    IF outcome.ended = "returned" THEN Success(outcome.value)
    ELSE HandlerCatch(outcome.error, method)

\* The token test of line 801: TRUE when the request is refused.
TokenMismatch(authorization, token) ==
    \/ ~authorization.present
    \/ ReplaceFirst(authorization.value, "Bearer ") # token

\* TokenAuthStatus that calls next() after a failed token test.
TokenAuthStatusLax(authorization, token) == IF token = <<>> THEN 500 ELSE 0

\* The token middleware (lines 795-805): the status it answers with, 0
\* when it calls next().
TokenAuthStatus(authorization, token) ==
    IF token = <<>> THEN 500
    ELSE IF TokenMismatch(authorization, token) THEN 401
    ELSE 0

\* Validate without the test of flag.
ValidateNoFlag(authToken, ct0Token, headers, flag, apiMethod, endpoint) ==
    IF ~Truthy(authToken) \/ ~Truthy(ct0Token) THEN "Missing: authToken, ct0Token"
    ELSE IF ~Truthy(headers) THEN "Missing: headers, flag"
    ELSE IF ~Truthy(apiMethod) /\ ~Truthy(endpoint) THEN "apiMethod or endpoint required"
    ELSE ""

\* The parameter validation of lines 828-832: the error it answers 400
\* with, "" when the envelope passes.
Validate(authToken, ct0Token, headers, flag, apiMethod, endpoint) ==
    IF ~Truthy(authToken) \/ ~Truthy(ct0Token) THEN "Missing: authToken, ct0Token"
    ELSE IF ~Truthy(headers) \/ ~Truthy(flag) THEN "Missing: headers, flag"
    ELSE IF ~Truthy(apiMethod) /\ ~Truthy(endpoint) THEN "apiMethod or endpoint required"
    ELSE ""

\* Dispatch that prefers the raw executor when an endpoint is supplied.
DispatchEndpointFirst(apiMethod, endpoint) ==
    IF Truthy(endpoint) THEN "raw" ELSE "packaged"

\* The call path the route handler enters for a validated envelope (lines
\* 836-843): `if (apiMethod)`, else the raw executor.
Dispatch(apiMethod, endpoint) ==
    IF Truthy(apiMethod) THEN "packaged" ELSE "raw"

\* apiMethod || endpoint || 'unknown' (line 848)
MethodLabel(apiMethod, endpoint) ==
    IF Truthy(apiMethod) THEN apiMethod
    ELSE IF Truthy(endpoint) THEN endpoint
    ELSE "unknown"

\* fn(client, params) for an fn that is not an entry of the table (line
\* 652): Object(client) returns the client, Object.prototype.toString and
\* valueOf are called without a receiver, Object.prototype is no function.
CallInherited(fn) ==
    CASE fn = "Object" -> Returned("client")
      [] fn = "toString" -> Returned("[object Undefined]")
      [] fn = "valueOf" -> Threw(NewError(<<"Cannot convert undefined or null to object">>))
      [] OTHER -> Threw(NewError(<<"fn is not a function">>))

\* invokeMethod for a method that makes no call to the library: the lookup
\* of lines 648-649 and the call of an inherited property.
InvokeLocal(method) ==
    IF Lookup(method) = "undefined" THEN Threw(UnsupportedMethod(method))
    ELSE LET r == CallInherited(Lookup(method))
         IN  IF r.ended = "threw"
             THEN InvokeCatch(r.error, NoCapture, "none", FALSE, FALSE)
             ELSE r

---------------------------------------------------------------------------
(* The outbound call *)

\* remote[r] before any reply.  replied: the fetch returned a response of
\* this status and body; library: how the client library's method ended
\* ("data": it returned the decoded data, "threw": it threw `thrown`);
\* attached, bodyUsed: what the library did with the response it attached
\* to the error.
NoRemote ==
    [replied |-> FALSE, status |-> 0, body |-> NullBody, library |-> "",
     thrown |-> NoError, attached |-> "none", bodyUsed |-> FALSE, textFails |-> FALSE]

Ok(status) == status >= 200 /\ status <= 299

\* The library's error for a response it rejects: it carries the response.
ResponseError(status, body) ==
    WithResponse(<<"Response returned an error code">>, status, StatusText(status), body)

\* The decoder's crash on a response it cannot decode.
CrashError(sig) == NewError(<<sig>>)

\* fetch failing below HTTP: a TypeError with a cause.
NetworkError == MkError("Error", <<"fetch failed">>, FALSE, 0, "", NullBody, "ECONNRESET")

\* What the library may throw before any response has arrived.
EarlyFailures ==
    {NetworkError, ThrownString, ThrownNull} \cup {CrashError(sig) : sig \in CrashSignatures}

\* What the library may hang on a ResponseError for this body.
Attachable(body) ==
    {"none"} \cup (IF body.json = "object" THEN {"data"} ELSE {})
             \cup (IF body.errors # <<>> THEN {"errors"} ELSE {})

---------------------------------------------------------------------------
(* The raw request executor, lines 730-774: the request it builds *)

\* String.prototype.startsWith for a leading token.
StartsWith(s, prefix) == s # <<>> /\ Head(s) = prefix

\* The endpoints of the raw path: texts a caller puts in the envelope.  The
\* last one does not begin with "/".
RawEndpoints ==
    {<<"/i/api/", "graphql/q/Viewer">>,
     <<"/1.1/friendships/create.json">>,
     <<"/2", "/i/api/", "timeline">>,
     <<"@attacker.example", "/1.1/friendships/create.json">>}

\* A query value too long to write out: the URL-encoded variables of a
\* GraphQL call.
LongValue == "%7B ... %7D"

\* Above this length an error's URL is shortened (lines 610, 707).
UrlLimit == 200

\* The length of a token.
TokenLen(tok) == IF tok = LongValue THEN UrlLimit + 40 ELSE Len(tok)

RECURSIVE UrlLength(_)
\* url.length
UrlLength(url) == IF url = <<>> THEN 0 ELSE TokenLen(Head(url)) + UrlLength(Tail(url))

\* One entry of queryParams.
Param(key, value) == [key |-> key, value |-> value]

\* queryParams of the envelope: absent, or an object's entries in order.
NoParams == [present |-> FALSE, entries |-> <<>>]

Params(entries) == [present |-> TRUE, entries |-> entries]

QueryParams ==
    {NoParams, Params(<<>>),
     Params(<<Param("count", "20")>>),
     Params(<<Param("cursor", Null), Param("count", "20")>>),
     Params(<<Param("cursor", Undefined)>>),
     Params(<<Param("q", "a b"), Param("lang", "")>>),
     Params(<<Param("variables", LongValue)>>)}

\* application/x-www-form-urlencoded serialisation of a name or value, as
\* URLSearchParams.toString() does it.
Encode(text) == IF text = "a b" THEN "a+b" ELSE text

\* The pairs params.append has received (line 746): v != null.
Appended(entries) == SelectSeq(entries, LAMBDA e : e.value \notin {Null, Undefined})

RECURSIVE ToQuery(_)
\* params.toString()
ToQuery(params) ==
    IF params = <<>> THEN <<>>
    ELSE <<Encode(Head(params).key), "=", Encode(Head(params).value)>>
             \o (IF Tail(params) = <<>> THEN <<>> ELSE <<"&">> \o ToQuery(Tail(params)))

\* baseUrl (line 742)
BaseUrl(endpoint) ==
    IF StartsWith(endpoint, "/i/api/") THEN "https://x.com" ELSE "https://api.x.com"

\* url (lines 743-748)
BuildUrl(endpoint, queryParams) ==
    LET query == IF queryParams.present THEN ToQuery(Appended(queryParams.entries)) ELSE <<>>
    IN  <<BaseUrl(endpoint)>> \o endpoint \o (IF query # <<>> THEN <<"?">> \o query ELSE <<>>)

\* The URL parser of fetch and of `new URL`: the authority runs from the
\* scheme to the first "/" or "?", and what precedes an "@" in it is
\* userinfo, not the host.
UserinfoEnds == {"@attacker.example"}

HostAfterAt(tok) == CASE tok = "@attacker.example" -> "attacker.example"

\* new URL(url).origin
Origin(url) ==
    IF Len(url) >= 2 /\ url[2] \in UserinfoEnds
    THEN "https://" \o HostAfterAt(url[2])
    ELSE url[1]

\* Where the search part of a URL begins (0: it has none).
SearchStart(url) ==
    IF \E i \in 1..Len(url) : url[i] = "?"
    THEN CHOOSE i \in 1..Len(url) : url[i] = "?" /\ \A j \in 1..(i - 1) : url[j] # "?"
    ELSE 0

\* new URL(url).pathname
Pathname(url) ==
    LET from == IF Len(url) >= 2 /\ url[2] \in UserinfoEnds THEN 3 ELSE 2
        to == IF SearchStart(url) = 0 THEN Len(url) ELSE SearchStart(url) - 1
    IN  SubSeq(url, from, to)

\* new URL(url).search without its "?"
Search(url) ==
    IF SearchStart(url) = 0 THEN <<>> ELSE SubSeq(url, SearchStart(url) + 1, Len(url))

\* An object's own properties in insertion order.
Entry(name, value) == [name |-> name, value |-> value]

\* obj[name] = value: an existing key keeps its place.
SetKey(obj, name, value) ==
    IF \E i \in 1..Len(obj) : obj[i].name = name
    THEN [i \in 1..Len(obj) |-> IF obj[i].name = name THEN Entry(name, value) ELSE obj[i]]
    ELSE Append(obj, Entry(name, value))

RECURSIVE Spread(_, _)
\* { ...obj, ...more }
Spread(obj, more) ==
    IF more = <<>> THEN obj
    ELSE Spread(SetKey(obj, Head(more).name, Head(more).value), Tail(more))

\* `auth_token=${authToken}; ct0=${ct0Token};` (line 738)
Cookie(authToken, ct0Token) == "auth_token=" \o authToken \o "; ct0=" \o ct0Token \o ";"

\* reqHeaders (lines 734-739)
ReqHeaders(headersApi, extraHeaders, authToken, ct0Token) ==
    SetKey(SetKey(SetKey(Spread(Spread(<<>>, headersApi), extraHeaders),
                         "x-twitter-auth-type", "OAuth2Session"),
                  "x-csrf-token", ct0Token),
           "cookie", Cookie(authToken, ct0Token))

\* headers.api of the envelope.
HeaderSeeds ==
    {<<>>, <<Entry("user-agent", "UA")>>, <<Entry("x-csrf-token", "seed")>>}

\* extraHeaders of the envelope.
ExtraHeaders ==
    {<<>>, <<Entry("x-extra", "1")>>, <<Entry("x-csrf-token", "spoof")>>,
     <<Entry("cookie", "auth_token=spoof")>>, <<Entry("Cookie", "auth_token=spoof")>>,
     <<Entry("X-Csrf-Token", "spoof")>>}

\* The header name as the transport sends it: HTTP header names are
\* case-insensitive and fetch lower-cases them.
Lower(name) ==
    CASE name = "Cookie" -> "cookie"
      [] name = "X-Csrf-Token" -> "x-csrf-token"
      [] OTHER -> name

\* The values the outgoing request carries for a header: fetch appends the
\* entries of the headers object one by one, so the values of entries whose
\* names differ only in case end up under the same header.
Sent(headers, name) ==
    LET same == SelectSeq(headers, LAMBDA e : Lower(e.name) = name)
    IN  [i \in 1..Len(same) |-> same[i].value]

\* method.toUpperCase() (line 755)
ToUpperCase(method) == CASE method = "get" -> "GET" [] method = "post" -> "POST" [] OTHER -> method

\* The arguments of one call of directRequest.
Args(endpoint, queryParams, headersApi, extraHeaders, method, body, pairData) ==
    [authToken |-> "AUTH", ct0Token |-> "CT0", endpoint |-> endpoint,
     queryParams |-> queryParams, headersApi |-> headersApi,
     extraHeaders |-> extraHeaders, method |-> method, body |-> body,
     pairData |-> pairData]

NoArgs == Args(<<>>, NoParams, <<>>, <<>>, "", FALSE, FALSE)

\* direct before any call.  pc: "none", "fetching" (directRequest awaits
\* fetch), "returned", "threw".  path: the call path.  url, method, headers:
\* what fetch was called with.  captured: the URL of the response the error
\* is about; errorUrl: error.response.url of the error thrown.
NoDirect ==
    [pc |-> "none", path |-> "", args |-> NoArgs, url |-> <<>>, method |-> "",
     headers |-> <<>>, captured |-> <<>>, errorUrl |-> <<>>]

\* opts and url as directRequest passes them to fetch (lines 733-762).
\* body, pairData: whether the envelope holds them.
FetchCall(a) ==
    LET merged == ReqHeaders(a.headersApi, a.extraHeaders, a.authToken, a.ct0Token)
        withTx == IF a.pairData THEN SetKey(merged, "x-client-transaction-id", "<txid>")
                  ELSE merged
        withBody == IF a.body THEN SetKey(withTx, "content-type", "application/json")
                    ELSE withTx
    IN  [url |-> BuildUrl(a.endpoint, a.queryParams),
         method |-> ToUpperCase(a.method), headers |-> withBody]

---------------------------------------------------------------------------
(* The server *)

Init ==
    /\ API_TOKEN \in Tokens
    /\ pc = [r \in Reqs |-> "idle"]
    /\ req = [r \in Reqs |-> NewRequest]
    /\ remote = [r \in Reqs |-> NoRemote]
    /\ capture = [r \in Reqs |-> NoCapture]
    /\ invocation = [r \in Reqs |-> NotEnded]
    /\ outbound = [r \in Reqs |-> 0]
    /\ res = [r \in Reqs |-> <<>>]
    /\ direct = NoDirect
    /\ normalized = NotNormalized

\* A response is sent and the handling of r ends.
Send(r, response) ==
    /\ res' = [res EXCEPT ![r] = Append(@, response)]
    /\ pc' = [pc EXCEPT ![r] = "done"]

\* A request arrives.
Receive(r) ==
    /\ pc[r] = "idle"
    /\ \E route \in Routes, a \in Authorizations :
          req' = [req EXCEPT ![r].route = route, ![r].authorization = a]
    /\ pc' = [pc EXCEPT ![r] = "parse"]
    /\ UNCHANGED <<API_TOKEN, remote, capture, invocation, outbound, res, direct, normalized>>

\* The forms the request body arrives in: a Buffer (from serverless-http)
\* or a stream for express.json, holding JSON or not.
BodyForms == {"Buffer, JSON", "Buffer, malformed", "stream, JSON", "stream, malformed"}

\* The body-parsing middleware (lines 780-792).  express.json passes the
\* parse error of a malformed body to the framework's error handler, which
\* answers 400.
ParseBody(r) ==
    /\ pc[r] = "parse"
    /\ \E form \in BodyForms :
          CASE form = "Buffer, malformed" -> Send(r, Refusal(400, "Invalid JSON"))
            [] form = "stream, malformed" -> Send(r, Fault(400))
            [] OTHER -> pc' = [pc EXCEPT ![r] = "auth"] /\ UNCHANGED res
    /\ UNCHANGED <<API_TOKEN, req, remote, capture, invocation, outbound, direct, normalized>>

\* The token middleware (lines 795-805).
TokenAuth(r) ==
    /\ pc[r] = "auth"
    /\ req' = [req EXCEPT ![r].tokenOk = ~TokenMismatch(req[r].authorization, API_TOKEN)]
    /\ LET status == TokenAuthStatus(req[r].authorization, API_TOKEN)
       IN  CASE status = 500 ->
                  Send(r, Refusal(500, "Server configuration error: API_TOKEN not set"))
             [] status = 401 -> Send(r, Refusal(401, "Unauthorized"))
             [] OTHER -> pc' = [pc EXCEPT ![r] = "route"] /\ UNCHANGED res
    /\ UNCHANGED <<API_TOKEN, remote, capture, invocation, outbound, direct, normalized>>

\* NotFound without res.status(404): the body is sent with status 200.
NotFoundWithoutStatus(r) ==
    /\ pc[r] = "route"
    /\ req[r].route # ProxyRoute
    /\ req' = [req EXCEPT ![r].authorization = NotHeld]
    /\ Send(r, MkRes("json", 200, {"success", "error"}, FALSE, <<"Not Found">>, 0, "", "",
                     NoDetails))
    /\ UNCHANGED <<API_TOKEN, remote, capture, invocation, outbound, direct, normalized>>

\* The 404 handler (line 860).
NotFound(r) ==
    /\ pc[r] = "route"
    /\ req[r].route # ProxyRoute
    /\ req' = [req EXCEPT ![r].authorization = NotHeld]
    /\ Send(r, Refusal(404, "Not Found"))
    /\ UNCHANGED <<API_TOKEN, remote, capture, invocation, outbound, direct, normalized>>

\* The route handler up to its first outbound call (lines 824-843, with
\* createClient, the head of invokeMethod and directRequest up to fetch).
\* A field of the envelope is drawn when the handler first decides on it.
ProxyHandler(r) ==
    /\ pc[r] = "route"
    /\ req[r].route = ProxyRoute
    /\ \E authToken \in {Undefined, "", "AUTH"}, ct0Token \in {Undefined, "", "CT0"},
          headers \in {Undefined, Null, "{api}"}, flag \in {Undefined, Null, "{flag}"},
          apiMethod \in {Undefined} \cup MethodNames, endpoint \in {Undefined} \cup Endpoints,
          method \in {Undefined, "GET"} :
          LET invalid == Validate(authToken, ct0Token, headers, flag, apiMethod, endpoint)
              creds == [req[r] EXCEPT !.authorization = NotHeld,
                                      !.authToken = authToken, !.ct0Token = ct0Token]
              seeds == [creds EXCEPT !.headers = headers, !.flag = flag]
              target == [seeds EXCEPT !.apiMethod = apiMethod, !.endpoint = endpoint]
              local == InvokeLocal(apiMethod)
              noMethod == Threw(NewError(<<"Cannot read properties of undefined",
                                           " (reading 'toUpperCase')">>))
          IN  IF invalid = "Missing: authToken, ct0Token"
              THEN /\ headers = Undefined /\ flag = Undefined
                   /\ apiMethod = Undefined /\ endpoint = Undefined /\ method = Undefined
                   /\ req' = [req EXCEPT ![r] = creds]
                   /\ Send(r, Refusal(400, invalid))
                   /\ UNCHANGED <<capture, invocation, outbound>>
              ELSE IF invalid = "Missing: headers, flag"
              THEN /\ apiMethod = Undefined /\ endpoint = Undefined /\ method = Undefined
                   /\ req' = [req EXCEPT ![r] = seeds]
                   /\ Send(r, Refusal(400, invalid))
                   /\ UNCHANGED <<capture, invocation, outbound>>
              ELSE IF invalid # ""
              THEN /\ method = Undefined
                   /\ req' = [req EXCEPT ![r] = target]
                   /\ Send(r, Refusal(400, invalid))
                   /\ UNCHANGED <<capture, invocation, outbound>>
              ELSE IF Dispatch(apiMethod, endpoint) = "packaged"
              THEN \* neither method nor the text of endpoint is read on this
                   \* path: one supplied endpoint stands for all
                   /\ method = Undefined
                   /\ endpoint \in {Undefined, "/1.1/friendships/create.json"}
                   /\ req' = [req EXCEPT ![r] = [target EXCEPT !.entered = Append(@, "packaged")]]
                   /\ IF Lookup(apiMethod) = "packaged"
                      THEN /\ capture' = [capture EXCEPT ![CaptureOf(r)] = NoCapture]
                           /\ outbound' = [outbound EXCEPT ![r] = @ + 1]
                           /\ pc' = [pc EXCEPT ![r] = "invoking"]
                           /\ UNCHANGED <<invocation, res>>
                      ELSE /\ invocation' = [invocation EXCEPT ![r] = local]
                           /\ Send(r, HandlerResponse(local, MethodLabel(apiMethod, endpoint)))
                           /\ UNCHANGED <<capture, outbound>>
              ELSE /\ req' = [req EXCEPT ![r] = [target EXCEPT !.method = method,
                                                               !.entered = Append(@, "raw")]]
                   /\ IF method = Undefined
                      THEN /\ invocation' = [invocation EXCEPT ![r] = noMethod]
                           /\ Send(r, HandlerResponse(noMethod, MethodLabel(apiMethod, endpoint)))
                           /\ UNCHANGED <<capture, outbound>>
                      ELSE /\ outbound' = [outbound EXCEPT ![r] = @ + 1]
                           /\ pc' = [pc EXCEPT ![r] = "fetching"]
                           /\ UNCHANGED <<capture, invocation, res>>
    /\ UNCHANGED <<API_TOKEN, remote, direct, normalized>>


\* How directRequest ends once fetch has returned (lines 762-773).
DirectRequestEnd(status, body) ==
    IF ~Ok(status)
    THEN Threw(WithResponse(<<"HTTP ", ToString(status), ": ", StatusText(status)>>,
                            status, StatusText(status), body))
    ELSE IF body.json = "invalid" THEN Threw(NewError(<<"Unexpected end of JSON input">>))
    ELSE IF body.json = "null" THEN Returned("null")
    ELSE Returned("json")

\* The call path of r has ended: the route handler answers (lines 844-856).
Answer(r, outcome) ==
    /\ invocation' = [invocation EXCEPT ![r] = outcome]
    /\ Send(r, HandlerResponse(outcome, MethodLabel(req[r].apiMethod, req[r].endpoint)))

\* wrappedFetchApi (lines 603-614): the library's fetch returns a response
\* of this status and body, which is recorded in the client's capture.
Replied(r, status, body) ==
    /\ pc[r] = "invoking"
    /\ remote' = [remote EXCEPT ![r] = [NoRemote EXCEPT !.replied = TRUE,
                                          !.status = status, !.body = body]]
    /\ capture' = [capture EXCEPT ![CaptureOf(r)] = Captured(status, body)]
    /\ pc' = [pc EXCEPT ![r] = "decoding"]
    /\ UNCHANGED <<API_TOKEN, req, invocation, outbound, res, direct, normalized>>

\* The remote platform answers with any of its statuses and bodies.
FetchReply(r) == \E status \in Statuses, body \in Bodies : Replied(r, status, body)

\* The library's method throws before any response has arrived; the catch
\* of invokeMethod and the route handler run.
LibraryFailsEarly(r) ==
    /\ pc[r] = "invoking"
    /\ \E e \in EarlyFailures :
          /\ remote' = [remote EXCEPT ![r] = [NoRemote EXCEPT !.library = "threw", !.thrown = e]]
          /\ Answer(r, InvokeCatch(e, capture[CaptureOf(r)], "none", FALSE, FALSE))
    /\ UNCHANGED <<API_TOKEN, req, capture, outbound, direct, normalized>>

\* The library's method returns the decoded data (line 652).
LibraryReturns(r) ==
    /\ pc[r] = "decoding"
    /\ Ok(remote[r].status)
    /\ remote[r].body.json = "object"
    /\ remote' = [remote EXCEPT ![r].library = "data"]
    /\ Answer(r, Returned("data"))
    /\ UNCHANGED <<API_TOKEN, req, capture, outbound, direct, normalized>>

\* The library's method throws the error of a rejected response; the catch
\* of invokeMethod and the route handler run (lines 697-716, 845-856).
LibraryRejects(r) ==
    /\ pc[r] = "decoding"
    /\ ~Ok(remote[r].status) \/ remote[r].body.errors # <<>>
    /\ \E attached \in Attachable(remote[r].body), bodyUsed \in BOOLEAN :
          LET e == ResponseError(remote[r].status, remote[r].body)
          IN  /\ bodyUsed => attached = "none"
              /\ remote' = [remote EXCEPT ![r].library = "threw", ![r].thrown = e,
                                          ![r].attached = attached, ![r].bodyUsed = bodyUsed]
              /\ Answer(r, InvokeCatch(e, capture[CaptureOf(r)], attached, bodyUsed, FALSE))
    /\ UNCHANGED <<API_TOKEN, req, capture, outbound, direct, normalized>>

\* The library's decoder crashes on the response; the crash branch of
\* invokeMethod reads the captured clone (lines 654-695).
LibraryCrashes(r) ==
    /\ pc[r] = "decoding"
    /\ \E sig \in CrashSignatures, textFails \in BOOLEAN :
          LET e == CrashError(sig)
          IN  /\ remote' = [remote EXCEPT ![r].library = "threw", ![r].thrown = e,
                                          ![r].textFails = textFails]
              /\ capture' = [capture EXCEPT ![CaptureOf(r)].cloned = FALSE]
              /\ Answer(r, InvokeCatch(e, capture[CaptureOf(r)], "none", FALSE, textFails))
    /\ UNCHANGED <<API_TOKEN, req, outbound, direct, normalized>>

\* directRequest's fetch returns (lines 762-773) and the route handler
\* answers.
RawReply(r) ==
    /\ pc[r] = "fetching"
    /\ \E status \in Statuses, body \in Bodies :
          /\ remote' = [remote EXCEPT ![r] = [NoRemote EXCEPT !.replied = TRUE,
                                                !.status = status, !.body = body]]
          /\ Answer(r, DirectRequestEnd(status, body))
    /\ UNCHANGED <<API_TOKEN, req, capture, outbound, direct, normalized>>

Next ==
    \E r \in Reqs :
        \/ Receive(r)
        \/ ParseBody(r)
        \/ TokenAuth(r)
        \/ NotFound(r)
        \/ ProxyHandler(r)
        \/ FetchReply(r)
        \/ LibraryFailsEarly(r)
        \/ LibraryReturns(r)
        \/ LibraryRejects(r)
        \/ LibraryCrashes(r)
        \/ RawReply(r)

Spec == Init /\ [][Next]_vars

---------------------------------------------------------------------------
(* One call followed in detail: the request directRequest builds and the
   URL an error carries *)

\* The redaction marker of line 710, `?[parameters omitted]`.
RedactionMarker == "?[parameters omitted]"

\* simplifiedUrl (lines 706-712).  The URLs it is applied to are absolute
\* (Response.url of fetch), which `new URL` parses without failing.
SimplifyUrl(url) ==
    IF UrlLength(url) > UrlLimit
    THEN <<Origin(url)>> \o Pathname(url) \o <<RedactionMarker>>
    ELSE url

\* error.response.url of the error a call path throws for a response of
\* this URL: shortened by invokeMethod (line 715), response.url as it is in
\* directRequest (line 768).
ErrorUrl(path, url) == IF path = "packaged" THEN SimplifyUrl(url) ELSE url

\* The URLs of the responses the client library attaches to its errors.
LibraryUrls ==
    {<<"https://x.com", "/i/api/", "graphql/q/UserTweets">>,
     <<"https://x.com", "/i/api/", "graphql/q/UserTweets", "?", "variables", "=", "%7B%7D">>,
     <<"https://x.com", "/i/api/", "graphql/q/UserTweets", "?", "variables", "=", LongValue>>,
     <<"https://api.x.com", "/1.1/friendships/create.json", "?", "user_id", "=", "42">>}

\* directRequest is called and builds the request it hands to fetch (lines
\* 730-762).
DirectRequest ==
    /\ direct.pc = "none"
    /\ \E endpoint \in RawEndpoints, queryParams \in QueryParams,
          headersApi \in HeaderSeeds, extraHeaders \in ExtraHeaders,
          method \in {"get", "POST"}, body \in BOOLEAN, pairData \in BOOLEAN :
          LET a == Args(endpoint, queryParams, headersApi, extraHeaders, method, body, pairData)
              call == FetchCall(a)
          IN  direct' = [direct EXCEPT !.pc = "fetching", !.path = "raw", !.args = a,
                                       !.url = call.url, !.method = call.method,
                                       !.headers = call.headers]
    /\ UNCHANGED <<server, normalized>>

\* fetch returns: directRequest returns the body of an ok response and
\* throws an error carrying response.url otherwise (lines 762-773).
DirectResponds ==
    /\ direct.pc = "fetching"
    /\ \E status \in Statuses :
          direct' = IF Ok(status)
                    THEN [direct EXCEPT !.pc = "returned", !.captured = direct.url]
                    ELSE [direct EXCEPT !.pc = "threw", !.captured = direct.url,
                                        !.errorUrl = ErrorUrl("raw", direct.url)]
    /\ UNCHANGED <<server, normalized>>

\* A packaged method rejects with the library's error for a response; the
\* catch of invokeMethod throws the enhanced error (lines 697-716).
InvokeMethodRejects ==
    /\ direct.pc = "none"
    /\ \E url \in LibraryUrls :
          direct' = [direct EXCEPT !.pc = "threw", !.path = "packaged",
                                   !.captured = url, !.errorUrl = ErrorUrl("packaged", url)]
    /\ UNCHANGED <<server, normalized>>

NextDirect == DirectRequest \/ DirectResponds \/ InvokeMethodRejects

SpecDirect == Init /\ [][NextDirect]_vars

---------------------------------------------------------------------------
(* Packaged-method calls handled concurrently *)

\* Number of packaged-method calls in flight at once.
NumClients == 2

Clients == 1..NumClients

\* An authorized, valid envelope naming a packaged method, as the route
\* handler holds it after its validation.
PackagedRequest ==
    [NewRequest EXCEPT !.route = ProxyRoute, !.tokenOk = TRUE, !.authToken = "AUTH",
                       !.ct0Token = "CT0", !.headers = "{api}", !.flag = "{flag}",
                       !.apiMethod = "getUserTweets", !.endpoint = Undefined,
                       !.method = Undefined, !.entered = <<"packaged">>]

\* Every call has passed the middleware and the validation; the handler has
\* created its client (line 838) and called invokeMethod (line 839).
InitConcurrent ==
    /\ API_TOKEN = <<"tok">>
    /\ pc = [r \in Clients |-> "invoking"]
    /\ req = [r \in Clients |-> PackagedRequest]
    /\ remote = [r \in Clients |-> NoRemote]
    /\ capture = [r \in Clients |-> NoCapture]
    /\ invocation = [r \in Clients |-> NotEnded]
    /\ outbound = [r \in Clients |-> 1]
    /\ res = [r \in Clients |-> <<>>]
    /\ direct = NoDirect
    /\ normalized = NotNormalized

\* The remote platform answers a call: a success or a rate limit, with a
\* data document or an errors document.
ConcurrentReply(r) ==
    \E status \in {200, 429}, body \in {DataBody, RateBody} : Replied(r, status, body)

NextConcurrent ==
    \E r \in Clients :
        \/ ConcurrentReply(r)
        \/ LibraryFailsEarly(r)
        \/ LibraryReturns(r)
        \/ LibraryRejects(r)
        \/ LibraryCrashes(r)

SpecConcurrent == InitConcurrent /\ [][NextConcurrent]_vars

---------------------------------------------------------------------------
(* One call of parseError *)

\* Message texts of the errors parseError is given.
Messages ==
    {<<>>, <<"fetch failed">>, <<"HTTP ", "429", ": ", "Too Many Requests">>,
     <<"HTTP ", "0", ": ", "Unknown">>, <<"HTTP ", "error, then ", "HTTP ", "304">>}

\* The values parseError is given: Error objects with and without response
\* metadata (a response status of 0 included), and thrown values that are
\* no Error.
ParseInputs ==
    {MkError("Error", message, FALSE, 0, "", NullBody, cause) :
         message \in Messages, cause \in {"", "ECONNRESET"}}
    \cup {MkError("Error", message, TRUE, status, StatusText(status), body, cause) :
              message \in Messages, status \in {0, 200, 429},
              body \in {NullBody, EmptyBody, RateBody}, cause \in {"", "ECONNRESET"}}
    \cup {ThrownString, ThrownNull}

\* parseError is called with a value and returns its triple, or throws
\* (lines 546-573).
ParseErrorCall ==
    /\ normalized.pc = "none"
    /\ \E error \in ParseInputs :
          normalized' =
              IF ParseErrorThrows(error)
              THEN [normalized EXCEPT !.pc = "threw", !.error = error]
              ELSE [pc |-> "returned", error |-> error, result |-> ParseError(error)]
    /\ UNCHANGED <<server, direct>>

NextParseError == ParseErrorCall

SpecParseError == Init /\ [][NextParseError]_vars

---------------------------------------------------------------------------
(* Properties *)

Done(r) == pc[r] = "done"

\* The response sent for r (when one was).
Response(r) == res[r][1]

\* A field of the envelope that the handler found missing or falsy.
Lacks(v) == v \in {Undefined, Null, ""}

ClientError(http) == http >= 400 /\ http <= 499

\* The request passed the token test with a token configured.
Authorized(r) == API_TOKEN # <<>> /\ req[r].tokenOk

\* The header carries, as Bearer credentials, a token that is not t.
CarriesOtherToken(a, t) ==
    a.present /\ a.value # <<>> /\ Head(a.value) = "Bearer " /\ Tail(a.value) # t

\* The call path of r ended by throwing this error to the route handler.
Failed(r) == Done(r) /\ invocation[r].ended = "threw"

\* C1: every request, whatever its path, method and body, is answered 500
\* when no API token is configured, and otherwise 401 when its
\* Authorization header is missing or carries another token.
C1_TokenTestDecidesEveryRequest ==
    \A r \in Reqs :
        res[r] # <<>> =>
            /\ API_TOKEN = <<>> => Response(r).http = 500
            /\ ( /\ API_TOKEN # <<>>
                 /\ \/ req[r].authorization = NoHeader
                    \/ CarriesOtherToken(req[r].authorization, API_TOKEN) )
               => Response(r).http = 401

\* C2: no step of the route handler (validation, client construction,
\* dispatch) and no outbound call happens for a request unless its token
\* test has passed with a token configured.
C2_NoBusinessLogicBeforeTokenTest ==
    \A r \in Reqs :
        ( \/ outbound[r] > 0
          \/ pc[r] \in {"invoking", "decoding", "fetching"}
          \/ req[r].authToken # Unread
          \/ invocation[r].ended # "none"
          \/ remote[r] # NoRemote )
        => Authorized(r)

\* A request refused by the token test has ended with 401 and without any
\* outbound call or handler step.
C2_Witness ==
    \E r \in Reqs :
        /\ Done(r) /\ API_TOKEN # <<>> /\ ~req[r].tokenOk
        /\ Response(r) = Refusal(401, "Unauthorized")
        /\ outbound[r] = 0 /\ req[r].authToken = Unread

\* C3: an authorized POST /api/twitter/proxy whose envelope lacks authToken,
\* ct0Token, headers or flag is answered 400 and makes no outbound call.
C3_IncompleteEnvelopeIs400 ==
    \A r \in Reqs :
        ( \/ Lacks(req[r].authToken) \/ Lacks(req[r].ct0Token)
          \/ Lacks(req[r].headers) \/ Lacks(req[r].flag) )
        => /\ Done(r)
           /\ Len(res[r]) = 1
           /\ Response(r).http = 400
           /\ ~Response(r).success
           /\ outbound[r] = 0
           /\ remote[r] = NoRemote
           /\ invocation[r] = NotEnded

\* An authorized request with both tokens and headers but no flag was
\* answered 400.
C3_Witness ==
    \E r \in Reqs :
        /\ Authorized(r) /\ req[r].route = ProxyRoute
        /\ Truthy(req[r].authToken) /\ Truthy(req[r].ct0Token)
        /\ Truthy(req[r].headers) /\ Lacks(req[r].flag)
        /\ Done(r) /\ Response(r).http = 400 /\ outbound[r] = 0

\* C4: an authorized, otherwise valid envelope whose apiMethod is not a
\* supported method, with no endpoint, is answered with a client error
\* (400..499) whose error text names the method, never with a 5xx.  Stated
\* here for the names that are no property of the table at all (C5 is about
\* the inherited ones).
C4_UnsupportedMethodIsClientError ==
    \A r \in Reqs :
        ( /\ Done(r)
          /\ Truthy(req[r].apiMethod) /\ req[r].apiMethod # Unread
          /\ req[r].apiMethod \notin API_METHODS \cup ObjectPrototypeKeys
          /\ req[r].endpoint = Undefined )
        => /\ ClientError(Response(r).http)
           /\ Includes(Response(r).error, req[r].apiMethod)

\* C5: for a method name that is not an own key of the table, invokeMethod
\* throws the unsupported-method error naming it, calls nothing and returns
\* no result.
C5_OnlyOwnKeysAreAccepted ==
    \A r \in Reqs :
        ( /\ Done(r)
          /\ Truthy(req[r].apiMethod) /\ req[r].apiMethod # Unread
          /\ req[r].apiMethod \notin API_METHODS )
        => /\ invocation[r] = Threw(UnsupportedMethod(req[r].apiMethod))
           /\ outbound[r] = 0

\* C6: an authorized envelope with the four required fields that supplies
\* both apiMethod and endpoint is refused with a client error and makes no
\* outbound call.
C6_BothTargetsAreRefused ==
    \A r \in Reqs :
        ( /\ Truthy(req[r].apiMethod) /\ req[r].apiMethod # Unread
          /\ Truthy(req[r].endpoint) /\ req[r].endpoint # Unread )
        => /\ Done(r)
           /\ ClientError(Response(r).http)
           /\ outbound[r] = 0

\* The error that reached the route handler's catch for r.
Caught(r) == invocation[r].error

\* The message parseError returned for r: the error text of the response
\* after its `[${method}] ` prefix.
NormalizedMessage(r) == Render(SubSeq(Response(r).error, 4, Len(Response(r).error)))

\* The first entry of the errors list of a parsed body holds a message or
\* a detail.
UsableEntry(b) ==
    b.json = "object" /\ b.errors # <<>>
        /\ (b.errors[1].message # "" \/ b.errors[1].detail # "")

\* C7: for a failed call whose response metadata has status s and a body
\* that parses to an object whose first errors entry has message (or
\* detail) m, the normalized message is "HTTP s: m", with " (code=c)"
\* appended when the entry carries a code c, and statusCode is s; with no
\* usable entry but an error field e the message is "HTTP s: e"; when the
\* body cannot be parsed the message of the error is kept.
C7_RemoteDetailInMessage ==
    \A r \in Reqs :
        (Failed(r) /\ Response(r).kind = "json" /\ Caught(r).hasResponse) =>
            LET b == Caught(r).body
                s == ToString(Caught(r).status)
                entry == b.errors[1]
                m == IF entry.message # "" THEN entry.message ELSE entry.detail
            IN  /\ UsableEntry(b) =>
                      /\ NormalizedMessage(r) =
                             "HTTP " \o s \o ": " \o m \o
                                 (IF entry.code \in Codes
                                  THEN " (code=" \o ToString(entry.code) \o ")" ELSE "")
                      /\ Response(r).statusCode = Caught(r).status
                /\ (b.json = "object" /\ ~UsableEntry(b) /\ b.error # "") =>
                      NormalizedMessage(r) = "HTTP " \o s \o ": " \o b.error
                /\ b.json = "invalid" =>
                      NormalizedMessage(r) = Render(Caught(r).message)

\* The spec's example: 429 with errors[0] = {message: "Rate limit
\* exceeded", code: 88}.
C7_Witness ==
    \E r \in Reqs :
        /\ Failed(r)
        /\ Caught(r).status = 429 /\ Caught(r).body = RateBody
        /\ NormalizedMessage(r) = "HTTP 429: Rate limit exceeded (code=88)"
        /\ Response(r).statusCode = 429

\* C8: when a packaged-method invocation fails with a crash signature and
\* the captured response has status 200 and a body (read without failure)
\* that holds none of the markers anywhere, the empty body included,
\* invokeMethod returns null and the response is {success: true, data:
\* null} with status 200.
C8_CleanCrashIsEmptyResult ==
    \A r \in Reqs :
        ( /\ Done(r)
          /\ remote[r].library = "threw"
          /\ \E sig \in CrashSignatures : Includes(remote[r].thrown.message, sig)
          /\ capture[r].status = 200
          /\ ~remote[r].textFails
          /\ capture[r].body.markers \cup capture[r].body.late = {} )
        => /\ invocation[r] = Returned("null")
           /\ Response(r) = Success("null")

InRange(status) == status >= 400 /\ status <= 599

\* C9: a failure response of the route handler's catch has success =
\* false, an error text, statusCode = the normalized status and details;
\* its HTTP status is the normalized status when that lies in 400..599 and
\* 500 otherwise.  A success response is {success: true, data: result}
\* with status 200.
C9_ResponseEnvelopes ==
    \A r \in Reqs :
        (Done(r) /\ invocation[r].ended # "none") =>
            LET out == invocation[r]
                R == Response(r)
            IN  /\ out.ended = "returned" =>
                      /\ R.kind = "json" /\ R.http = 200 /\ R.success
                      /\ R.keys = {"success", "data"} /\ R.data = out.value
                /\ (out.ended = "threw" /\ R.kind = "json") =>
                      /\ ~R.success
                      /\ {"success", "error", "statusCode", "details"} \subseteq R.keys
                      /\ R.error # <<>>
                      /\ R.statusCode = (IF out.error.hasResponse THEN out.error.status ELSE 500)
                      /\ R.http = (IF InRange(R.statusCode) THEN R.statusCode ELSE 500)
                      /\ R.details.message = out.error.message

\* A failure whose normalized status, 200, is no error status: it is sent
\* with HTTP status 500 and statusCode 200.
C9_Witness ==
    \E r \in Reqs :
        /\ Failed(r) /\ Response(r).kind = "json"
        /\ Response(r).statusCode = 200 /\ Response(r).http = 500
        /\ ~Response(r).success

\* C10: every request that passes the token test and the validation gets
\* exactly one response, and it is one of the two JSON envelopes, whatever
\* the call path threw: parseError never throws.
C10_NothingEscapesTheHandler ==
    \A r \in Reqs :
        (Done(r) /\ invocation[r].ended # "none") =>
            /\ Len(res[r]) = 1
            /\ Response(r).kind = "json"
            /\ invocation[r].ended = "threw" => ~ParseErrorThrows(Caught(r))

\* The web origin and the REST-API origin.
WebOrigin == "https://x.com"

RestOrigin == "https://api.x.com"

\* C11: the URL a raw-passthrough call requests has the web origin exactly
\* when the endpoint begins with the internal-API prefix and the REST-API
\* origin for every other endpoint; after the origin come the endpoint and
\* the query parameters, without those whose value is null or absent.
C11_OriginFollowsPrefix ==
    direct.path = "raw" =>
        LET endpoint == direct.args.endpoint
            entries == direct.args.queryParams.entries
        IN  /\ Origin(direct.url) =
                   (IF StartsWith(endpoint, "/i/api/") THEN WebOrigin ELSE RestOrigin)
            /\ Pathname(direct.url) = endpoint
            /\ \A i \in 1..Len(entries) :
                   IF entries[i].value \in {Null, Undefined}
                   THEN ~Includes(Search(direct.url), entries[i].key)
                   ELSE /\ Includes(Search(direct.url), Encode(entries[i].key))
                        /\ Includes(Search(direct.url), Encode(entries[i].value))

\* C12: for a failed call, on either call path, whose request URL is longer
\* than 200 characters, the URL the error carries is the origin and path of
\* that URL followed by the redaction marker and holds nothing of its query
\* string.
C12_LongUrlIsRedacted ==
    (direct.pc = "threw" /\ UrlLength(direct.captured) > UrlLimit) =>
        /\ direct.errorUrl =
               <<Origin(direct.captured)>> \o Pathname(direct.captured) \o <<RedactionMarker>>
        /\ \A i \in 1..Len(Search(direct.captured)) :
               ~Includes(direct.errorUrl, Search(direct.captured)[i])

\* Query strings a URL may carry.
Searches ==
    {<<>>, <<"variables", "=", "%7B%7D">>, <<"variables", "=", LongValue>>,
     <<"user_id", "=", "42">>}

\* The URL with its query string replaced.
WithSearch(url, search) ==
    SubSeq(url, 1, IF SearchStart(url) = 0 THEN Len(url) ELSE SearchStart(url) - 1)
        \o (IF search = <<>> THEN <<>> ELSE <<"?">> \o search)

\* C13: the URL a failed call's error carries does not depend on the query
\* string of the request URL, whatever the URL's length: the same call with
\* any other query string yields the same URL in the error.
C13_QueryNeverSurfaces ==
    direct.pc = "threw" =>
        \A search \in Searches :
            ErrorUrl(direct.path, WithSearch(direct.captured, search)) = direct.errorUrl

\* C14: the request a raw-passthrough call sends carries, for each of the
\* three authentication headers, exactly the value derived from the
\* envelope's authToken and ct0Token, once: no entry of headers.api or
\* extraHeaders, however its name is spelled, changes, duplicates or removes
\* it.
C14_AuthHeadersAreTheEnvelopes ==
    direct.path = "raw" =>
        /\ Sent(direct.headers, "x-twitter-auth-type") = <<"OAuth2Session">>
        /\ Sent(direct.headers, "x-csrf-token") = <<direct.args.ct0Token>>
        /\ Sent(direct.headers, "cookie") =
               <<Cookie(direct.args.authToken, direct.args.ct0Token)>>

\* The capture that r's crash handling consults, worked out from the reply
\* to r's own outbound call.
OwnCapture(r) ==
    IF remote[r].replied THEN Captured(remote[r].status, remote[r].body) ELSE NoCapture

\* How r's invocation ends, worked out from the reply to r's own outbound
\* call and from what the library made of it.
OwnOutcome(r) ==
    IF remote[r].library = "data" THEN Returned("data")
    ELSE InvokeCatch(remote[r].thrown, OwnCapture(r), remote[r].attached,
                     remote[r].bodyUsed, remote[r].textFails)

\* C15: under every interleaving of the calls in flight, the capture a
\* call's crash handling consults holds the response to that call's own
\* outbound call, the response to a call is determined by its envelope and
\* the reply to its own outbound call, and two identical calls that get the
\* same reply get the same response.
C15_RequestsAreIndependent ==
    /\ \A r \in Clients :
          /\ (pc[r] = "decoding") => capture[r] = OwnCapture(r)
          /\ Done(r) =>
                /\ invocation[r] = OwnOutcome(r)
                /\ res[r] = <<HandlerResponse(OwnOutcome(r),
                                              MethodLabel(req[r].apiMethod, req[r].endpoint))>>
    /\ \A r1, r2 \in Clients :
          (Done(r1) /\ Done(r2) /\ req[r1] = req[r2] /\ remote[r1] = remote[r2])
              => res[r1] = res[r2]

\* Two calls in flight at once got different replies, and the one answered
\* first crashed in the decoder after the other's reply had arrived: it
\* returned the empty result of its own 200 reply.
C15_Witness ==
    \E r1, r2 \in Clients :
        /\ r1 # r2
        /\ Done(r1) /\ pc[r2] = "decoding"
        /\ remote[r1].status = 200 /\ remote[r1].body = DataBody
        /\ remote[r2].status = 429 /\ remote[r2].body = RateBody
        /\ IsCrash(remote[r1].thrown)
        /\ Response(r1) = Success("null")

\* C16: a request passes the token middleware only if its Authorization
\* header is exactly "Bearer " followed by the configured token; with any
\* other header value it is refused.
C16_OnlyExactBearerHeaderPasses ==
    \A r \in Reqs :
        pc[r] = "route" =>
            req[r].authorization = Header(<<"Bearer ">> \o API_TOKEN)

\* C17 as claimed: every request whose path and method are not POST
\* /api/twitter/proxy is answered 404 {success: false, error: 'Not Found'}.
C17_OtherRoutesAre404 ==
    \A r \in Reqs :
        (Done(r) /\ req[r].route # ProxyRoute) => Response(r) = Refusal(404, "Not Found")

\* C17 as amended: every request whose path and method are not POST
\* /api/twitter/proxy and that has passed the body-parsing middleware and
\* the token test is answered 404 {success: false, error: 'Not Found'},
\* once, and nothing is called on its behalf.
C17_AuthorizedOtherRoutesAre404 ==
    \A r \in Reqs :
        (req[r].route # ProxyRoute /\ Authorized(r)) =>
            /\ pc[r] \in {"route", "done"}
            /\ Done(r) => /\ res[r] = <<Refusal(404, "Not Found")>>
                          /\ outbound[r] = 0
                          /\ invocation[r] = NotEnded

\* An authorized GET of the proxy path was answered 404.
C17_Witness ==
    \E r \in Reqs :
        /\ Done(r) /\ Authorized(r)
        /\ req[r].route = "GET /api/twitter/proxy"
        /\ Response(r).http = 404 /\ Response(r).error = <<"Not Found">>

\* C18: a raw-passthrough envelope that holds the documented fields but no
\* HTTP method is refused before any remote call with status 400 or 401,
\* never with a 5xx.
C18_RawEnvelopeWithoutMethodIsRefused ==
    \A r \in Reqs :
        ( /\ Done(r)
          /\ ~Truthy(req[r].apiMethod) /\ Truthy(req[r].endpoint)
          /\ req[r].endpoint # Unread
          /\ req[r].method = Undefined )
        => /\ Response(r).http \in {400, 401}
           /\ outbound[r] = 0

\* C19: a packaged-method invocation that failed in the library returns the
\* empty value only if the failure has a crash signature, a response with
\* status 200 was captured and the captured body holds none of the markers
\* at any position; in every other case the invocation fails.
C19_EmptyResultOnlyByThreeWayCheck ==
    \A r \in Reqs :
        (Done(r) /\ remote[r].library = "threw" /\ invocation[r].ended = "returned") =>
            /\ invocation[r] = Returned("null")
            /\ IsCrash(remote[r].thrown)
            /\ capture[r].status = 200
            /\ capture[r].body.markers \cup capture[r].body.late = {}

\* The route handler has validated r's envelope and found it complete.
Validated(r) ==
    /\ req[r].apiMethod # Unread
    /\ Validate(req[r].authToken, req[r].ct0Token, req[r].headers, req[r].flag,
                req[r].apiMethod, req[r].endpoint) = ""

\* C20: for a validated request exactly one call path is entered, once, and
\* it makes at most one outbound call: the packaged-method path whenever
\* apiMethod is present, also when endpoint is present too, the raw executor
\* only when apiMethod is absent and endpoint present; no path is entered for
\* any other request, and the response is sent only after the entered path
\* has returned or thrown.
C20_OneCallPathOnce ==
    \A r \in Reqs :
        /\ outbound[r] <= 1
        /\ Validated(r) =>
              req[r].entered = (IF Truthy(req[r].apiMethod) THEN <<"packaged">> ELSE <<"raw">>)
        /\ ~Validated(r) => (req[r].entered = <<>> /\ outbound[r] = 0)
        /\ pc[r] \in {"invoking", "decoding"} => req[r].entered = <<"packaged">>
        /\ pc[r] = "fetching" => (req[r].entered = <<"raw">> /\ Truthy(req[r].endpoint))
        /\ (res[r] # <<>> /\ req[r].entered # <<>>) =>
              (invocation[r].ended # "none" /\ Len(res[r]) = 1)
        /\ (res[r] = <<>> /\ req[r].entered # <<>>) => invocation[r].ended = "none"

\* A request that supplied both apiMethod and endpoint went down the
\* packaged-method path, made one outbound call and was answered after it.
C20_Witness ==
    \E r \in Reqs :
        /\ Done(r) /\ Validated(r)
        /\ Truthy(req[r].apiMethod) /\ Truthy(req[r].endpoint)
        /\ req[r].entered = <<"packaged">>
        /\ outbound[r] = 1 /\ invocation[r].ended # "none"

\* The places of a message where "HTTP " is followed by digits.
HttpPatterns(msg) == {i \in 1..(Len(msg) - 1) : msg[i] = "HTTP " /\ IsDigits(msg[i + 1])}

\* C21: the status parseError returns is the status of the response
\* metadata whenever the error carries such metadata, whatever its value (0
\* and 200 included); otherwise the integer after the first "HTTP " pattern
\* of the message; otherwise 500.
C21_StatusByStrictPriority ==
    normalized.pc = "returned" =>
        LET error == normalized.error
            hits == HttpPatterns(error.message)
        IN  normalized.result.status =
                (IF error.hasResponse THEN error.status
                 ELSE IF hits # {}
                 THEN ParseInt(error.message[(CHOOSE i \in hits : \A j \in hits : i <= j) + 1])
                 ELSE 500)

\* The library's call for r failed and invokeMethod's catch has run.
LibraryThrew(r) == Done(r) /\ remote[r].library = "threw"

\* What the library threw for r.
Thrown(r) == remote[r].thrown

\* A thrown value that is not null, carries no response metadata and has no
\* crash signature in its message.
Plain(error) == error.thrown # "null" /\ ~error.hasResponse /\ ~IsCrash(error)

\* C22 as stated: every failure of the library's call without response
\* metadata leaves invokeMethod as the very value that was thrown, and
\* invokeMethod throws an enhanced error only for a failure that carries
\* response metadata.
C22_NoMetadataIsRethrownUnchanged ==
    \A r \in Reqs :
        LibraryThrew(r) =>
            /\ ~Thrown(r).hasResponse => invocation[r] = Threw(Thrown(r))
            /\ (invocation[r].ended = "threw" /\ Caught(r).hasResponse)
                   => Thrown(r).hasResponse

\* C22, amended: a thrown value other than null that carries no response
\* metadata and whose message has no crash signature leaves invokeMethod
\* unchanged; invokeMethod throws an enhanced error only for a failure that
\* carries response metadata or has a crash signature, and the enhanced
\* error of a failure with metadata and no crash signature carries that
\* metadata's status and status text.
C22_PlainFailureIsRethrownUnchanged ==
    \A r \in Reqs :
        LibraryThrew(r) =>
            /\ Plain(Thrown(r)) => invocation[r] = Threw(Thrown(r))
            /\ (invocation[r].ended = "threw" /\ Caught(r).hasResponse)
                   => (Thrown(r).hasResponse \/ IsCrash(Thrown(r)))
            /\ (Thrown(r).hasResponse /\ ~IsCrash(Thrown(r)))
                   => /\ invocation[r].ended = "threw"
                      /\ Caught(r).hasResponse
                      /\ Caught(r).status = Thrown(r).status
                      /\ Caught(r).statusText = Thrown(r).statusText

\* C22 witness: a network failure without response metadata has left
\* invokeMethod as the value the library threw.
C22_Witness ==
    \E r \in Reqs :
        /\ LibraryThrew(r)
        /\ Thrown(r) = NetworkError
        /\ invocation[r] = Threw(NetworkError)

====
